---- MODULE Spec2Model ----
(***************************************************************************)
(* Track-segment geometry and switch state of src/main.py.                 *)
(*                                                                         *)
(* Numbers.  A Python float is modelled as an extended rational <<n, d>>   *)
(* in lowest terms: d > 0 is the rational n/d, <<1, 0>> is +inf,           *)
(* <<-1, 0>> is -inf and <<0, 0>> is nan, with the IEEE rules numpy        *)
(* applies to float64 (x/0 is +-inf or nan, inf*0 is nan, any comparison   *)
(* with nan is false).  Rounding error is not modelled.                    *)
(*                                                                         *)
(* Radians.  A quantity in radians (and an arc length, radians * radius)   *)
(* is kept as an extended rational multiple of pi/2, so deg2rad divides by *)
(* 90 and cos/sin are exact at the quarter turns the model evaluates.      *)
(***************************************************************************)
EXTENDS Integers, Sequences, FiniteSets, TLC

\* The module-level list of TrackSegment objects.
VARIABLES track_segments

vars == <<track_segments>>

----------------------------------------------------------------------------
(* Bounds of the model *)

\* Largest number of segments appended to track_segments.
MaxSegments == 2

----------------------------------------------------------------------------
(* Extended rational arithmetic: the float operators the code uses *)

Abs(k) == IF k < 0 THEN -k ELSE k

Sign(k) == IF k < 0 THEN -1 ELSE IF k > 0 THEN 1 ELSE 0

RECURSIVE GCD(_, _)
GCD(a, b) == IF b = 0 THEN a ELSE GCD(b, a % b)

Norm(n, d) ==
    IF d = 0 THEN <<Sign(n), 0>>
    ELSE LET s == Sign(d)
             g == GCD(Abs(n), Abs(d))
         IN  <<(s * n) \div g, (s * d) \div g>>

R(k) == <<k, 1>>

NaN == <<0, 0>>

IsFinite(a) == a[2] # 0

IsNaN(a) == a = NaN

\* a + b
RAdd(a, b) ==
    IF ~IsFinite(a) /\ ~IsFinite(b) THEN (IF a = b THEN a ELSE NaN)
    ELSE IF ~IsFinite(a) THEN a
    ELSE IF ~IsFinite(b) THEN b
    ELSE Norm(a[1] * b[2] + b[1] * a[2], a[2] * b[2])

\* -a
RNeg(a) == <<-a[1], a[2]>>

\* a - b
RSub(a, b) == RAdd(a, RNeg(b))

\* a * b
RMul(a, b) ==
    IF ~IsFinite(a) \/ ~IsFinite(b) THEN <<Sign(a[1] * b[1]), 0>>
    ELSE Norm(a[1] * b[1], a[2] * b[2])

\* a / b as numpy float64 divides: no exception, x/0 is +-inf or nan.
RDiv(a, b) ==
    IF IsNaN(a) \/ IsNaN(b) THEN NaN
    ELSE IF ~IsFinite(a) /\ ~IsFinite(b) THEN NaN
    ELSE IF ~IsFinite(b) THEN R(0)
    ELSE IF ~IsFinite(a) THEN <<a[1] * (IF b[1] < 0 THEN -1 ELSE 1), 0>>
    ELSE IF b[1] = 0 THEN <<Sign(a[1]), 0>>
    ELSE Norm(a[1] * b[2], a[2] * b[1])

\* a < b
RLt(a, b) ==
    IF IsNaN(a) \/ IsNaN(b) THEN FALSE
    ELSE IF ~IsFinite(a) /\ ~IsFinite(b) THEN a[1] < b[1]
    ELSE IF ~IsFinite(a) THEN a[1] < 0
    ELSE IF ~IsFinite(b) THEN b[1] > 0
    ELSE a[1] * b[2] < b[1] * a[2]

\* Largest k with k * k <= n, for a natural n.
RECURSIVE ISqrtFrom(_, _)
ISqrtFrom(n, k) == IF (k + 1) * (k + 1) > n THEN k ELSE ISqrtFrom(n, k + 1)

ISqrt(n) == ISqrtFrom(n, 0)

IsSquare(n) == ISqrt(n) * ISqrt(n) = n

\* np.sqrt: exact on a ratio of perfect squares (every length the model
\* stores is one); elsewhere the integer part, which the code only compares
\* with 1, and sqrt(v) < 1 exactly when the integer part of sqrt(v) is 0.
RSqrt(a) ==
    IF ~IsFinite(a) THEN (IF a[1] < 0 THEN NaN ELSE a)
    ELSE IF a[1] < 0 THEN NaN
    ELSE IF IsSquare(a[1]) /\ IsSquare(a[2]) THEN Norm(ISqrt(a[1]), ISqrt(a[2]))
    ELSE R(ISqrt(a[1] \div a[2]))

\* np.deg2rad: degrees to radians, the result in units of pi/2.
deg2rad(deg) == Norm(deg, 90)

\* np.cos and np.sin of an angle given in units of pi/2; nan and inf give nan.
QuarterCos(q) == IF q % 4 = 0 THEN 1 ELSE IF q % 4 = 2 THEN -1 ELSE 0

QuarterSin(q) == IF q % 4 = 1 THEN 1 ELSE IF q % 4 = 3 THEN -1 ELSE 0

AtQuarterTurn(theta) == theta[2] = 1

np_cos(theta) == IF ~IsFinite(theta) THEN NaN ELSE R(QuarterCos(theta[1]))

np_sin(theta) == IF ~IsFinite(theta) THEN NaN ELSE R(QuarterSin(theta[1]))

----------------------------------------------------------------------------
(* class Point *)

Point(x, y) == [x |-> x, y |-> y]

\* Point.distance_to
distance_to(self, other) ==
    LET dx == RSub(self.x, other.x)
        dy == RSub(self.y, other.y)
    IN  RSqrt(RAdd(RMul(dx, dx), RMul(dy, dy)))

----------------------------------------------------------------------------
(* class TrackSegment *)

TRACK_COLOR == "TRACK_COLOR"

TRACK_HIGHLIGHT_COLOR == "TRACK_HIGHLIGHT_COLOR"

\* The id argument left at its default.
None == "None"

\* Python truth of an id argument: None and the empty string are falsy.
Falsy(id) == id \in {None, ""}

\* TrackSegment.__init__: self.id = id or str(uuid.uuid4())[:8], where uuid
\* is the value uuid4 draws; self.color = TRACK_COLOR.
TrackSegment_init(id, uuid) ==
    [id |-> IF Falsy(id) THEN uuid ELSE id, color |-> TRACK_COLOR]

\* TrackSegment.highlight
highlight(self) == [self EXCEPT !.color = TRACK_HIGHLIGHT_COLOR]

\* TrackSegment.remove_highlight
remove_highlight(self) == [self EXCEPT !.color = TRACK_COLOR]

----------------------------------------------------------------------------
(* class StraightTrackSegment *)

StraightTrackSegment(start, end, id, uuid) ==
    LET base == TrackSegment_init(id, uuid)
    IN  [kind |-> "straight", id |-> base.id, color |-> base.color,
         start |-> start, end |-> end,
         length |-> distance_to(start, end)]

Straight_get_point_at_distance(self, start_point, distance) ==
    LET t == RDiv(distance, self.length)
    IN  IF RLt(distance_to(start_point, self.start), R(1))
        THEN Point(RAdd(self.start.x, RMul(t, RSub(self.end.x, self.start.x))),
                   RAdd(self.start.y, RMul(t, RSub(self.end.y, self.start.y))))
        ELSE Point(RAdd(self.end.x, RMul(t, RSub(self.start.x, self.end.x))),
                   RAdd(self.end.y, RMul(t, RSub(self.start.y, self.end.y))))

----------------------------------------------------------------------------
(* class CircularTrackSegment *)

CircularTrackSegment(start, rotation_start, rotation_end, radius, id, uuid) ==
    LET base == TrackSegment_init(id, uuid)
        rotation == rotation_end - rotation_start
        theta_start_rad == deg2rad(rotation_start)
        center == Point(RSub(start.x, RMul(R(radius), np_cos(theta_start_rad))),
                        RSub(start.y, RMul(R(radius), np_sin(theta_start_rad))))
        theta_end_rad == deg2rad(rotation_end)
    IN  [kind |-> "circular", id |-> base.id, color |-> base.color,
         start |-> start,
         rotation_start |-> rotation_start, rotation_end |-> rotation_end,
         rotation |-> rotation, radius |-> radius,
         length |-> RMul(deg2rad(rotation), R(radius)),
         center |-> center,
         end |-> Point(RAdd(center.x, RMul(R(radius), np_cos(theta_end_rad))),
                       RAdd(center.y, RMul(R(radius), np_sin(theta_end_rad))))]

\* The angle get_point_at_distance evaluates cos and sin at.
Circular_theta(self, start_point, distance) ==
    LET swept == RMul(RDiv(distance, self.length), deg2rad(self.rotation))
    IN  IF RLt(distance_to(start_point, self.start), R(1))
        THEN RAdd(deg2rad(self.rotation_start), swept)
        ELSE RSub(deg2rad(self.rotation_end), swept)

Circular_get_point_at_distance(self, start_point, distance) ==
    LET theta == Circular_theta(self, start_point, distance)
    IN  IF RLt(distance_to(start_point, self.start), R(1))
        THEN Point(RAdd(self.start.x, RMul(R(self.radius), np_cos(theta))),
                   RAdd(self.start.y, RMul(R(self.radius), np_sin(theta))))
        ELSE Point(RAdd(self.end.x, RMul(R(self.radius), np_cos(theta))),
                   RAdd(self.end.y, RMul(R(self.radius), np_sin(theta))))

----------------------------------------------------------------------------
(* class SwitchSegment *)

SwitchSegment(start, main_end, alt_end, id, uuid) ==
    LET base == TrackSegment_init(id, uuid)
    IN  [kind |-> "switch", id |-> base.id, color |-> base.color,
         start |-> start, main_end |-> main_end, alt_end |-> alt_end,
         active |-> FALSE,
         length |-> distance_to(start, main_end)]

Switch_get_point_at_distance(self, start_point, distance) ==
    LET t == RDiv(distance, self.length)
    IN  IF RLt(distance_to(start_point, self.start), R(1))
        THEN Point(RAdd(self.start.x, RMul(t, RSub(self.main_end.x, self.start.x))),
                   RAdd(self.start.y, RMul(t, RSub(self.main_end.y, self.start.y))))
        ELSE Point(RAdd(self.start.x, RMul(t, RSub(self.alt_end.x, self.start.x))),
                   RAdd(self.start.y, RMul(t, RSub(self.alt_end.y, self.start.y))))

\* SwitchSegment.get_length stores the length of the branch `active` selects
\* in self.length before returning it.
Switch_get_length(self) ==
    [self EXCEPT !.length = IF ~self.active
                            THEN distance_to(self.start, self.main_end)
                            ELSE distance_to(self.start, self.alt_end)]

----------------------------------------------------------------------------
(* The capability contract, dispatched on the segment's class *)

\* segment.get_point_at_distance(start_point, distance)
get_point_at_distance(self, start_point, distance) ==
    IF self.kind = "straight"
    THEN Straight_get_point_at_distance(self, start_point, distance)
    ELSE IF self.kind = "circular"
    THEN Circular_get_point_at_distance(self, start_point, distance)
    ELSE Switch_get_point_at_distance(self, start_point, distance)

\* The segment as segment.get_length() leaves it.
after_get_length(self) ==
    IF self.kind = "switch" THEN Switch_get_length(self) ELSE self

\* The value segment.get_length() returns.
get_length(self) == after_get_length(self).length

\* segment.get_connection_points()
get_connection_points(self) ==
    IF self.kind = "switch"
    THEN [start |-> self.start, main_end |-> self.main_end, alt_end |-> self.alt_end]
    ELSE [start |-> self.start, end |-> self.end]

----------------------------------------------------------------------------
(* Inputs *)

P(x, y) == Point(R(x), R(y))

\* Points the geometry checks construct segments from: pairwise distances
\* 0, 3, 4 and 5, so every stored length is exact.
PointInputs == {P(0, 0), P(3, 0), P(3, 4)}

\* rotation_start and rotation_end, in degrees.
AngleInputs == {-90, 0, 90}

RadiusInputs == {-1, 0, 2}

\* The id argument: omitted, empty, or a caller's token.
IdInputs == {None, "", "a"}

\* The values str(uuid.uuid4())[:8] may draw.
UuidDraws == {"u1", "u2"}

\* The layout the network is built from, as main builds one: every segment
\* starts at the origin.
LayoutOrigin == P(0, 0)

\* Distance arguments: whole units along a straight or switch segment,
\* whole quarter turns along an arc (in either sense), and the segment's
\* stored and recomputed length.
StepInputs == {0, 1, 2}

DistanceInputs(self) ==
    IF self.kind = "circular"
    THEN {R(k * self.radius) : k \in StepInputs} \cup
         {R(-(k * self.radius)) : k \in StepInputs} \cup {self.length}
    ELSE {R(k) : k \in StepInputs} \cup {self.length, get_length(self)}

\* Origins: the segment's connection points.
OriginInputs(self) ==
    IF self.kind = "switch"
    THEN {self.start, self.main_end, self.alt_end}
    ELSE {self.start, self.end}

\* The model evaluates cos and sin at quarter turns (and at nan) only.
Evaluable(self, start_point, distance) ==
    self.kind = "circular" =>
        LET theta == Circular_theta(self, start_point, distance)
        IN  IsFinite(theta) => AtQuarterTurn(theta)

----------------------------------------------------------------------------
(* State and operations *)

\* track_segments = [] at import, before main runs.
Init == track_segments = <<>>

\* main: construct a StraightTrackSegment and append it.
append_straight ==
    /\ Len(track_segments) < MaxSegments
    /\ \E id \in IdInputs, uuid \in UuidDraws :
          track_segments' =
              Append(track_segments,
                     StraightTrackSegment(LayoutOrigin, P(3, 0), id, uuid))

\* main: construct a CircularTrackSegment and append it.
append_circular ==
    /\ Len(track_segments) < MaxSegments
    /\ \E id \in IdInputs, uuid \in UuidDraws :
          track_segments' =
              Append(track_segments,
                     CircularTrackSegment(LayoutOrigin, 0, 90, 2, id, uuid))

\* main: construct a SwitchSegment and append it.
append_switch ==
    /\ Len(track_segments) < MaxSegments
    /\ \E id \in IdInputs, uuid \in UuidDraws :
          track_segments' =
              Append(track_segments,
                     SwitchSegment(LayoutOrigin, P(3, 0), P(3, 4), id, uuid))

\* toggle_segment with the assignment `segment.active = True`.
toggle_segment_set_true(segment) ==
    IF segment.kind = "switch"
    THEN [segment EXCEPT !.active = TRUE]
    ELSE segment

\* The body of the loop of TrackViewer.toggle_activate: a SwitchSegment has
\* `active` negated (update_display only draws, time.sleep only waits).
toggle_segment(segment) ==
    IF segment.kind = "switch"
    THEN [segment EXCEPT !.active = ~segment.active]
    ELSE segment

\* toggle_loop leaving the loop after the first SwitchSegment.
toggle_loop_first_only(segments) ==
    [i \in 1..Len(segments) |->
        IF \E j \in 1..(i - 1) : segments[j].kind = "switch"
        THEN segments[i]
        ELSE toggle_segment(segments[i])]

\* for segment in track_segments: ...
toggle_loop(segments) == [i \in 1..Len(segments) |-> toggle_segment(segments[i])]

\* TrackViewer.toggle_activate (on_spacebar_press)
toggle_activate == track_segments' = toggle_loop(track_segments)

\* segment.highlight()
call_highlight ==
    \E i \in 1..Len(track_segments) :
        track_segments' = [track_segments EXCEPT ![i] = highlight(@)]

\* segment.remove_highlight()
call_remove_highlight ==
    \E i \in 1..Len(track_segments) :
        track_segments' = [track_segments EXCEPT ![i] = remove_highlight(@)]

\* segment.get_length()
call_get_length ==
    \E i \in 1..Len(track_segments) :
        track_segments' = [track_segments EXCEPT ![i] = after_get_length(@)]

\* segment.get_point_at_distance(start_point, distance): computes a Point and
\* writes nothing.
call_get_point_at_distance ==
    \E i \in 1..Len(track_segments) :
        \E start_point \in OriginInputs(track_segments[i]),
           distance \in DistanceInputs(track_segments[i]) :
            /\ Evaluable(track_segments[i], start_point, distance)
            /\ UNCHANGED track_segments

Next ==
    \/ append_straight
    \/ append_circular
    \/ append_switch
    \/ toggle_activate
    \/ call_highlight
    \/ call_remove_highlight
    \/ call_get_length
    \/ call_get_point_at_distance

Spec == Init /\ [][Next]_vars

\* One segment of any shape, constructed from the geometry inputs.
InitGeometry ==
    \E id \in {None}, uuid \in UuidDraws :
        \/ \E start \in PointInputs, end \in PointInputs :
              track_segments = <<StraightTrackSegment(start, end, id, uuid)>>
        \/ \E start \in PointInputs, rotation_start \in AngleInputs,
              rotation_end \in AngleInputs, radius \in RadiusInputs :
              track_segments =
                  <<CircularTrackSegment(start, rotation_start, rotation_end,
                                         radius, id, uuid)>>
        \/ \E start \in PointInputs, main_end \in PointInputs, alt_end \in PointInputs :
              track_segments = <<SwitchSegment(start, main_end, alt_end, id, uuid)>>

NextGeometry ==
    \/ toggle_activate
    \/ call_get_length
    \/ call_get_point_at_distance

SpecGeometry == InitGeometry /\ [][NextGeometry]_vars

----------------------------------------------------------------------------
(* Vocabulary of the properties *)

Members == {track_segments[i] : i \in 1..Len(track_segments)}

SwitchMembers == {s \in Members : s.kind = "switch"}

\* The branch end `active` selects.
LiveEnd(self) == IF self.active THEN self.alt_end ELSE self.main_end

\* Within the connection tolerance the code tests with, distance < 1.
WithinTolerance(p, q) == RLt(distance_to(p, q), R(1))

\* The square of the distance between two points, exactly.
DistSq(p, q) ==
    LET dx == RSub(p.x, q.x)
        dy == RSub(p.y, q.y)
    IN  RAdd(RMul(dx, dx), RMul(dy, dy))

\* A segment with positive length: distinct endpoints, or a positive sweep
\* of positive radius.
NonDegenerate(self) ==
    IF self.kind = "straight" THEN self.start # self.end
    ELSE IF self.kind = "circular" THEN self.rotation > 0 /\ self.radius > 0
    ELSE self.start # self.main_end /\ self.start # self.alt_end

\* |a|
RAbs(a) == <<Abs(a[1]), a[2]>>

----------------------------------------------------------------------------
(* Properties *)

\* C1: for every SwitchSegment, after any toggles,
\* get_point_at_distance(start, get_length()) is main_end when active is
\* false and alt_end when active is true.
C1_DestinationFollowsActive ==
    \A s \in SwitchMembers :
        NonDegenerate(s) =>
            get_point_at_distance(after_get_length(s), s.start, get_length(s))
                = LiveEnd(s)

\* C2: in every reachable state the length a SwitchSegment's
\* get_point_at_distance divides by (self.length) is the distance from start
\* to the end `active` selects.
C2_LengthMatchesActive ==
    \A s \in SwitchMembers :
        NonDegenerate(s) => s.length = distance_to(s.start, LiveEnd(s))

\* C3: from either value of active, two toggles return every switch's
\* get_length() and get_connection_points() to the values before them.
C3_DoubleToggleRestores ==
    LET twice == toggle_loop(toggle_loop(track_segments))
    IN  \A i \in 1..Len(track_segments) :
            track_segments[i].kind = "switch" =>
                /\ get_length(twice[i]) = get_length(track_segments[i])
                /\ get_connection_points(twice[i])
                       = get_connection_points(track_segments[i])

\* A toggled switch whose two branches differ in length.
C3_Witness ==
    \E s \in SwitchMembers :
        /\ s.active
        /\ distance_to(s.start, s.main_end) # distance_to(s.start, s.alt_end)
        /\ get_length(s) # get_length(toggle_segment(s))

\* C4: for every segment and every connection point p of it,
\* get_point_at_distance(p, 0) is within the tolerance of p.
C4_ZeroDistanceIsOrigin ==
    \A s \in Members :
        NonDegenerate(s) =>
            \A p \in OriginInputs(s) :
                WithinTolerance(get_point_at_distance(s, p, R(0)), p)

\* C5: for every segment, get_point_at_distance(origin, get_length()) is
\* within the tolerance of the opposite endpoint: start gives end (the live
\* branch end for a switch) and that end gives start.
C5_FullLengthIsOppositeEnd ==
    \A s \in Members :
        NonDegenerate(s) =>
            LET far == IF s.kind = "switch" THEN LiveEnd(s) ELSE s.end
                after == after_get_length(s)
            IN  /\ WithinTolerance(
                       get_point_at_distance(after, s.start, get_length(s)), far)
                /\ WithinTolerance(
                       get_point_at_distance(after, far, get_length(s)), s.start)

\* C6: for every CircularTrackSegment, either origin endpoint and every
\* distance in [0, length], the point get_point_at_distance returns is at
\* distance radius from the segment's center.
C6_PointsOnCircle ==
    \A s \in Members :
        (s.kind = "circular" /\ NonDegenerate(s)) =>
            \A p \in OriginInputs(s), d \in DistanceInputs(s) :
                (~RLt(d, R(0)) /\ ~RLt(s.length, d) /\ Evaluable(s, p, d)) =>
                    DistSq(get_point_at_distance(s, p, d), s.center)
                        = R(s.radius * s.radius)

\* C7: for every CircularTrackSegment, get_length() is
\* |rotation_end - rotation_start| in radians times radius, and so is not
\* negative for either sign of the sweep.
C7_ArcLengthIsAbsolute ==
    \A s \in Members :
        (s.kind = "circular" /\ s.radius > 0) =>
            /\ get_length(s)
                   = RMul(RAbs(deg2rad(s.rotation_end - s.rotation_start)),
                          R(s.radius))
            /\ ~RLt(get_length(s), R(0))

\* C8: construction of a degenerate segment fails: no StraightTrackSegment
\* has start = end, no CircularTrackSegment has rotation_end = rotation_start
\* or radius <= 0, and so no straight or circular segment has length 0.
C8_NoDegenerateSegment ==
    \A s \in Members :
        /\ s.kind = "straight" => (s.start # s.end /\ s.length # R(0))
        /\ s.kind = "circular" =>
               /\ s.rotation_end # s.rotation_start
               /\ s.radius > 0
               /\ s.length # R(0)

\* C9: one toggle command always succeeds, negates `active` of every
\* SwitchSegment member once, and leaves every other segment, every switch's
\* endpoints, and the membership and order of the collection as they were.
C9_ToggleFrame ==
    /\ [](ENABLED toggle_activate)
    /\ [][toggle_activate =>
            /\ Len(track_segments') = Len(track_segments)
            /\ \A i \in 1..Len(track_segments) :
                  LET before == track_segments[i]
                      after == track_segments'[i]
                  IN  IF before.kind = "switch"
                      THEN /\ after.kind = "switch"
                           /\ after.active = ~before.active
                           /\ after.id = before.id
                           /\ get_connection_points(after)
                                  = get_connection_points(before)
                      ELSE after = before]_vars

\* A toggled switch followed in the collection by a segment that is no switch.
C9_Witness ==
    /\ \E i, j \in 1..Len(track_segments) :
          /\ i < j
          /\ track_segments[i].kind = "switch" /\ track_segments[i].active
          /\ track_segments[j].kind # "switch"

\* C10: no two members of the collection have the same id, and no operation
\* changes the id of a segment after its construction.
C10_IdsUniqueAndStable ==
    /\ [](\A i, j \in 1..Len(track_segments) :
             i # j => track_segments[i].id # track_segments[j].id)
    /\ [][\A i \in 1..Len(track_segments) :
             track_segments'[i].id = track_segments[i].id]_vars

====
